---- MODULE Spec2Model ----
(***************************************************************************)
(* A model of EventBus (include/eventbus/EventBus.h).                      *)
(*                                                                         *)
(* Typed registry: `handlers` maps an event type to a heap-allocated       *)
(* std::list of EventRegistration pointers; AddHandler appends,            *)
(* EventRegistration::removeHandler unlinks, FireEvent walks the live list *)
(* with a range-for and calls each handler.  Handlers are user code and    *)
(* may call back into the bus, so a FireEvent in progress is a frame on a  *)
(* call stack and the bus operations are callable at top level or from     *)
(* the handler that is running in the top frame.                           *)
(*                                                                         *)
(* Descriptor path: Subscribe builds a SubscriptionDescriptor and hands    *)
(* it to the HandlerCollectionMap collaborator; Publish forwards to its    *)
(* Dispatch.                                                               *)
(***************************************************************************)
EXTENDS Integers, Sequences, FiniteSets, TLC

\* ------------------------------------------------------------------ bounds
MaxRegs == 3
MaxDepth == 2
MaxSubs == 2
MaxAmount == 2

\* ------------------------------------------------------------------ inputs
\* Concrete event types (the classes derived from RoutedEvent).
Types == {"A", "B"}
\* Handler objects; an EventHandler<T> object is the pair <<T, name>>.
HandlerNames == {"h1", "h2"}
\* The void* sender arguments a caller may pass, and the overload without one.
NoSender == "none"
Senders == {"s1"}
SenderArgs == Senders \cup {NoSender}
\* Events published on the descriptor path carry an amount.
Amounts == 0..MaxAmount
Events == [type : Types, amount : Amounts]
\* The callbacks and predicates a caller may pass to Subscribe.
Callbacks == {"cb1", "cb2"}
Predicates == {"big", "even"}

\* nullptr, as a Registrations* stored in the TypeMap.
Null == 0
\* The past-the-end iterator of a std::list (the sentinel node).
End == 0

VARIABLES
    handlers,     \* TypeMap: the keys present and the Registrations* of each
    collections,  \* the heap of Registrations objects: id -> list of node ids
    regs,         \* the heap of EventRegistration objects: id -> fields
    erased,       \* freed list nodes: node -> the next pointer left in it
    stack,        \* FireEvent calls in progress, innermost last
    crashed,      \* the process died (undefined behaviour that faulted)
    ret,          \* <<what returned>> when the last step was the return of a
                  \* FireEvent or of a removeHandler, else <<>> (observation)
    subs,         \* HandlerCollectionMap: the descriptors added, in order
    asked,        \* the arguments of each Subscribe call, in order (observation)
    pubRet        \* <<what it did>> when the last step was a Publish, else <<>>

vars == <<handlers, collections, regs, erased, stack, crashed, ret, subs, asked, pubRet>>
typedVars == <<handlers, collections, regs, erased, stack, crashed, ret>>
descVars == <<subs, asked, pubRet>>

\* ----------------------------------------------------------------- helpers
Range(s) == {s[i] : i \in DOMAIN s}

IndexOf(s, x) == CHOOSE i \in DOMAIN s : s[i] = x

\* std::list::push_back
PushFront(l, v) == <<v>> \o l
PushBack(l, v) == Append(l, v)

\* std::list::remove(value): unlinks every element equal to value
ListRemoveFront(l, v) == IF l = <<>> THEN l ELSE Tail(l)
ListRemoveFrom(l, v) == SelectSeq(l, LAMBDA x : x < v)
ListRemoveSameHandler(l, v) == SelectSeq(l, LAMBDA x : regs[x].handler # regs[v].handler)
ListRemove(l, v) == SelectSeq(l, LAMBDA x : x # v)

\* The successor of a linked node n in list l (its _M_next), End after the last.
Successor(l, n) ==
    LET i == IndexOf(l, n)
    IN  IF i < Len(l) THEN l[i + 1] ELSE End

\* std::list::begin()
Begin(l) == IF l = <<>> THEN End ELSE l[1]

\* std::unordered_map::operator[]: a missing key is inserted with a
\* value-initialised (nullptr) mapped value.
MapIndex(m, k) == IF k \in DOMAIN m THEN m ELSE [x \in DOMAIN m \cup {k} |-> IF x = k THEN Null ELSE m[x]]

\* EventRegistration::getHandler
getHandler(r) == regs[r].handler

\* EventRegistration::getSender
getSender(r) == regs[r].sender

\* The constructor of EventRegistration.
EventRegistration(h, c, s) ==
    [handler |-> h, registrations |-> c, sender |-> s, registered |-> TRUE]

\* A bus operation can be called from top level, or by the handler that the
\* innermost FireEvent is running.
CanCall ==
    /\ ~crashed
    /\ IF stack = <<>> THEN TRUE ELSE stack[Len(stack)].pc = "handler"

\* Every frame whose collection c is being iterated learns that it changed.
Touch(s, c) ==
    [i \in DOMAIN s |-> IF s[i].registrations = c THEN [s[i] EXCEPT !.dirty = TRUE] ELSE s[i]]

\* -------------------------------------------------------------------- Init
Init ==
    /\ handlers = <<>>
    /\ collections = <<>>
    /\ regs = <<>>
    /\ erased = <<>>
    /\ stack = <<>>
    /\ crashed = FALSE
    /\ ret = <<>>
    /\ subs = <<>>
    /\ asked = <<>>
    /\ pubRet = <<>>

\* ------------------------------------------------------------- AddHandler
\* The value stored as sender: nullptr for the overload without a sender,
\* and for the other the address of the by-value parameter (&sender).
StoredSender(s) == IF s = NoSender THEN "nullptr" ELSE "&sender"

\* typeid(T) of AddHandler<T> and typeid(e) of FireEvent: the key of the
\* concrete type.
TypeIdOfBase(T) == "A"
TypeId(T) == T

\* Whether AddHandler has to create the collection: the pointer it fetched
\* with handlers[typeid(T)] is null.
NeedsCollectionAlways(T) == TRUE
NeedsCollectionIfAbsent(T) == TypeId(T) \notin DOMAIN handlers
NeedsCollectionIfEmpty(T) ==
    \/ MapIndex(handlers, TypeId(T))[TypeId(T)] = Null
    \/ collections[handlers[TypeId(T)]] = <<>>
NeedsCollection(T) == MapIndex(handlers, TypeId(T))[TypeId(T)] = Null

AddHandler(T, h, s) ==
    /\ CanCall
    /\ Len(regs) < MaxRegs
    /\ LET k == TypeId(T)
           m == MapIndex(handlers, k)
           fresh == NeedsCollection(T)
           c == IF fresh THEN Len(collections) + 1 ELSE m[k]
           r == Len(regs) + 1
       IN  IF ~fresh /\ c = Null
           THEN \* push_back through a null Registrations*
                /\ crashed' = TRUE
                /\ handlers' = m
                /\ UNCHANGED <<collections, regs, stack>>
           ELSE /\ handlers' = [m EXCEPT ![k] = c]
                /\ regs' = Append(regs, EventRegistration(<<T, h>>, c, StoredSender(s)))
                /\ collections' =
                       IF fresh
                       THEN Append(collections, PushBack(<<>>, r))
                       ELSE [collections EXCEPT ![c] = PushBack(@, r)]
                /\ stack' = Touch(stack, c)
                /\ UNCHANGED crashed
    /\ ret' = <<>>
    /\ UNCHANGED <<erased, descVars>>

\* ----------------------------------------------------------- removeHandler
\* Freed memory can only be observed through the iterator of a FireEvent in
\* progress: a freed node is tracked while some frame's iterator is at it or
\* can get to it along the next pointers left in freed nodes.
RECURSIVE Reach(_, _)
Reach(er, S) ==
    LET more == S \cup {er[n] : n \in S \cap DOMAIN er}
    IN  IF more = S THEN S ELSE Reach(er, more)

Collect(er, st) ==
    LET R == Reach(er, {st[i].it : i \in DOMAIN st})
    IN  IF DOMAIN er \cap R = {} THEN <<>> ELSE [n \in DOMAIN er \cap R |-> er[n]]

\* The nodes in `gone` are unlinked from list l and freed; each keeps the
\* next pointer it held.
Freed(er, gone, l) ==
    Collect([n \in DOMAIN er \cup gone |-> IF n \in gone THEN Successor(l, n) ELSE er[n]],
            stack)

removeHandler(r) ==
    /\ CanCall
    /\ r \in DOMAIN regs
    /\ IF regs[r].registered
       THEN LET c == regs[r].registrations
                l == collections[c]
                gone == Range(l) \ Range(ListRemove(l, r))
            IN  /\ collections' = [collections EXCEPT ![c] = ListRemove(l, r)]
                /\ erased' = Freed(erased, gone, l)
                /\ regs' = [regs EXCEPT ![r].registered = FALSE]
                /\ stack' = Touch(stack, c)
       ELSE UNCHANGED <<collections, erased, regs, stack>>
    /\ ret' = <<[kind |-> "removeHandler", r |-> r, was |-> regs[r].registered]>>
    /\ UNCHANGED <<handlers, crashed, descVars>>

\* --------------------------------------------------------------- FireEvent
\* The frame of a FireEvent(e) call whose loop has started.  visited and
\* dirty observe the pass and are not read by the code: the registrations
\* invoked so far, and whether the collection was changed since the call.
Frame(T, c) ==
    [e |-> T, registrations |-> c, it |-> Begin(collections[c]), pc |-> "loop",
     visited |-> <<>>, dirty |-> FALSE]

\* What a FireEvent call did, observed when it returns.
Pass(f) ==
    [kind |-> "FireEvent", e |-> f.e, registrations |-> f.registrations,
     visited |-> f.visited, dirty |-> f.dirty]

EmptyPass(T, c) ==
    [kind |-> "FireEvent", e |-> T, registrations |-> c, visited |-> <<>>,
     dirty |-> FALSE]

\* The lookup and the entry into the range-for: returns at once when the
\* entry is null or the list is empty.
FireEvent(T) ==
    /\ CanCall
    /\ Len(stack) < MaxDepth
    /\ LET m == MapIndex(handlers, TypeId(T))
           c == m[TypeId(T)]
       IN  /\ handlers' = m
           /\ IF c = Null
              THEN /\ ret' = <<EmptyPass(T, Null)>>
                   /\ UNCHANGED stack
              ELSE IF Begin(collections[c]) = End
              THEN /\ ret' = <<EmptyPass(T, c)>>
                   /\ UNCHANGED stack
              ELSE /\ stack' = Append(stack, Frame(T, c))
                   /\ ret' = <<>>
    /\ UNCHANGED <<collections, regs, erased, crashed, descVars>>

Top == stack[Len(stack)]

SetTop(f) == [stack EXCEPT ![Len(stack)] = f]

\* The frame whose loop runs: the innermost call, the others wait in the
\* handler that made the nested call.
RunningOuter == CHOOSE i \in DOMAIN stack : \A j \in DOMAIN stack : i <= j
Running == Len(stack)

\* The statement of the loop body: the handler of reg is dispatched to,
\* whatever sender the registration holds.  `invoked` is the record of the
\* registrations the pass has dispatched to.
DispatchIfNoSender(invoked, reg) ==
    IF getSender(reg) = "nullptr" THEN Append(invoked, reg) ELSE invoked
Dispatch(invoked, reg) == Append(invoked, reg)

\* The loop body: reg is *it, and reg->getHandler() is dispatched to.  A
\* node that was erased is freed memory: reading it is undefined, and either
\* faults or still yields the EventRegistration* left in it.
Invoke ==
    /\ ~crashed
    /\ stack # <<>>
    /\ LET i == Running
           f == stack[i]
       IN  /\ f.pc = "loop"
           /\ \/ /\ f.it \in DOMAIN erased
                 /\ crashed' = TRUE
                 /\ UNCHANGED stack
              \/ /\ stack' = [stack EXCEPT ![i] =
                                 [f EXCEPT !.pc = "handler",
                                           !.visited = Dispatch(@, f.it)]]
                 /\ UNCHANGED crashed
    /\ ret' = <<>>
    /\ UNCHANGED <<handlers, collections, regs, erased, descVars>>

\* ++it of the range-for.  Stepping from a node that is still linked gives
\* its successor.  Stepping from an erased node reads freed memory: it
\* faults, or follows the next pointer the node held when it was unlinked.
Step(f) ==
    IF f.it \in DOMAIN erased
    THEN {erased[f.it], -1}
    ELSE {Successor(collections[f.registrations], f.it)}

\* The handler returns, the iterator advances and the loop condition is
\* tested; at end() FireEvent returns to its caller.
Return ==
    /\ ~crashed
    /\ stack # <<>>
    /\ Top.pc = "handler"
    /\ \E n \in Step(Top) :
          IF n = -1
          THEN /\ crashed' = TRUE
               /\ ret' = <<>>
               /\ UNCHANGED <<stack, erased>>
          ELSE IF n = End
          THEN /\ stack' = SubSeq(stack, 1, Len(stack) - 1)
               /\ erased' = Collect(erased, SubSeq(stack, 1, Len(stack) - 1))
               /\ ret' = <<Pass(Top)>>
               /\ UNCHANGED crashed
          ELSE /\ stack' = SetTop([Top EXCEPT !.it = n, !.pc = "loop"])
               /\ erased' = Collect(erased, SetTop([Top EXCEPT !.it = n, !.pc = "loop"]))
               /\ ret' = <<>>
               /\ UNCHANGED crashed
    /\ UNCHANGED <<handlers, collections, regs, descVars>>

\* -------------------------------------------------------------------- Next
\* Callers and handlers that call back into the bus: every operation may be
\* called at top level or from a running handler, to MaxDepth nested
\* FireEvent calls.  One handler object per type, registered without sender.
Next ==
    \/ \E T \in Types : AddHandler(T, "h1", NoSender)
    \/ \E r \in 1..MaxRegs : removeHandler(r)
    \/ \E T \in Types : FireEvent(T)
    \/ Invoke
    \/ Return

Spec == Init /\ [][Next]_vars

\* Callers whose handlers do not call back into the bus, with every handler
\* object and both AddHandler overloads.
TopLevel == stack = <<>>

FlatNext ==
    \/ \E T \in Types, h \in HandlerNames, s \in SenderArgs : TopLevel /\ AddHandler(T, h, s)
    \/ \E r \in 1..MaxRegs : TopLevel /\ removeHandler(r)
    \/ \E T \in Types : TopLevel /\ FireEvent(T)
    \/ Invoke
    \/ Return

FlatSpec == Init /\ [][FlatNext]_vars

\* The program runs on: the loop body is entered when it is reached, and the
\* handler running at each depth of nesting returns.
ReturnAt(d) == Len(stack) = d /\ Return

\* Handlers that call back into the bus while an event of one type is
\* dispatched: they register and revoke handlers of that type and fire
\* nested events of it.
NestedNext ==
    \/ AddHandler("A", "h1", NoSender)
    \/ \E r \in 1..MaxRegs : removeHandler(r)
    \/ FireEvent("A")
    \/ Invoke
    \/ Return

FairSpec ==
    /\ Init /\ [][NestedNext]_vars
    /\ WF_vars(Invoke)
    /\ \A d \in 1..MaxDepth : SF_vars(ReturnAt(d))

\* ========================================================= descriptor path
\* What a caller's predicate answers for an event of its type; "always" is
\* the lambda of the Subscribe overload without a predicate.
EvalPred(p, e) ==
    CASE p = "always" -> TRUE
      [] p = "big" -> e.amount * 2 > MaxAmount
      [] p = "even" -> e.amount % 2 = 0

\* The class hierarchy of the event types: B is declared as a class derived
\* from A, and both derive from RoutedEvent.  Supertypes(T) is T and its bases
\* among the concrete types.
Supertypes(T) == IF T = "B" THEN {"A", "B"} ELSE {T}

\* An object of runtime type S is a T.
IsA(S, T) == T \in Supertypes(S)

\* dynamic_cast<TEvent&>(e): the event itself when it is a TEvent (of that
\* class or of one derived from it), and std::bad_cast otherwise.
BadCast == [type |-> "bad_cast", amount |-> 0]
Downcast(T, e) == IF IsA(e.type, T) THEN e ELSE BadCast

\* The closures Subscribe<TEvent> builds around the caller's callback and
\* predicate.
InternalHandler(T, handler) ==
    [T |-> T, handler |-> handler]

InternalPredicateAlways(T, predicate) ==
    [T |-> T, predicate |-> "always"]
InternalPredicate(T, predicate) ==
    [T |-> T, predicate |-> predicate]

\* Calling the closures with a RoutedEvent&.
CallInternalPredicate(c, e) ==
    LET d == Downcast(c.T, e)
    IN  IF d = BadCast THEN FALSE ELSE EvalPred(c.predicate, d)

CallInternalHandler(c, e) ==
    LET d == Downcast(c.T, e)
    IN  IF d = BadCast THEN <<>> ELSE <<c.handler>>

\* The constructor of SubscriptionDescriptor.
SubscriptionDescriptor(k, h, p) == [type |-> k, handler |-> h, predicate |-> p]

\* HandlerCollectionMap::Add: the descriptor is stored after the ones added
\* before and a subscription handle to it is returned.
CollectionMapAdd(m, descriptor) ==
    Append(m, [descriptor |-> descriptor, cancelled |-> FALSE])

\* The type-key match of HandlerCollectionMap::Dispatch: the key stored in
\* the descriptor is the type key of the event's runtime type.
TypeKeyCompatible(k, e) == \E T \in Types : TypeId(T) = k /\ IsA(e.type, T)
TypeKeyMatches(k, e) == k = TypeId(e.type)

\* HandlerCollectionMap::Dispatch: every entry that is not cancelled, whose
\* type key is the event's and whose predicate callback answers true has its
\* dispatch callback invoked, in insertion order.  The result is the
\* sequence of <<entry, callback invoked>>.
RECURSIVE CollectionMapDispatch(_, _, _)
CollectionMapDispatch(m, e, i) ==
    IF i > Len(m)
    THEN <<>>
    ELSE LET d == m[i].descriptor
             hit == /\ ~m[i].cancelled
                    /\ TypeKeyMatches(d.type, e)
                    /\ CallInternalPredicate(d.predicate, e)
             now == IF hit
                    THEN [j \in DOMAIN CallInternalHandler(d.handler, e) |->
                             <<i, CallInternalHandler(d.handler, e)[j]>>]
                    ELSE <<>>
         IN  now \o CollectionMapDispatch(m, e, i + 1)

\* EventBus::Add
Add(descriptor) == CollectionMapAdd(subs, descriptor)

\* EventBus::Subscribe(handler, predicate)
Subscribe(T, handler, predicate) ==
    /\ Len(subs) < MaxSubs
    /\ subs' = Add(SubscriptionDescriptor(TypeId(T),
                                          InternalHandler(T, handler),
                                          InternalPredicate(T, predicate)))
    /\ asked' = Append(asked, [T |-> T, handler |-> handler, predicate |-> predicate])
    /\ pubRet' = <<>>
    /\ UNCHANGED typedVars

\* EventBus::Subscribe(handler): the predicate is the lambda that answers true.
SubscribeAll(T, handler) == Subscribe(T, handler, "always")

\* Cancelling the subscription handle that Add returned.
Cancel(i) ==
    /\ i \in DOMAIN subs
    /\ ~subs[i].cancelled
    /\ subs' = [subs EXCEPT ![i].cancelled = TRUE]
    /\ pubRet' = <<>>
    /\ UNCHANGED asked
    /\ UNCHANGED typedVars

\* EventBus::Publish
Publish(e) ==
    /\ pubRet' = <<[event |-> e, invoked |-> CollectionMapDispatch(subs, e, 1)]>>
    /\ UNCHANGED <<subs, asked>>
    /\ UNCHANGED typedVars

DescNext ==
    \/ \E T \in Types, cb \in Callbacks, p \in Predicates : Subscribe(T, cb, p)
    \/ \E T \in Types, cb \in Callbacks : SubscribeAll(T, cb)
    \/ \E i \in 1..MaxSubs : Cancel(i)
    \/ \E e \in Events : Publish(e)

DescSpec == Init /\ [][DescNext]_vars

\* ================================================================ properties
\* The event type a registration was made for: the T of its EventHandler<T>.
TypeOf(r) == regs[r].handler[1]

Ids == [i \in 1..Len(regs) |-> i]

\* The registrations of type T that are registered now, in the order in which
\* AddHandler made them.
LiveOf(T) == SelectSeq(Ids, LAMBDA r : regs[r].registered /\ TypeOf(r) = T)

\* The FireEvent call that returned in the last step.
Returned == ret # <<>> /\ ret[1].kind = "FireEvent"

\* A FireEvent call returned during which nobody changed its collection.
ReturnedClean == Returned /\ ~ret[1].dirty

\* All passes: the calls in progress and the one that just returned.
Passes == Range(stack) \cup (IF Returned THEN {ret[1]} ELSE {})

\* C1: a FireEvent(e) during which the collection is not changed invokes
\* exactly the registrations of e's type that are registered at the call,
\* each once, in registration order (revoked ones left out).
RegistrationOrderDispatch ==
    ReturnedClean => ret[1].visited = LiveOf(ret[1].e)

\* C1 witness: registrations 1, 2, 3 of one type, 2 revoked, then a pass
\* that invoked 1 and then 3.
RegistrationOrderDispatchWitness ==
    /\ ReturnedClean
    /\ ret[1].visited = <<1, 3>>
    /\ Len(regs) = 3
    /\ TypeOf(2) = ret[1].e
    /\ ~regs[2].registered

\* C2: a handler registered with AddHandler<A> is never invoked by a
\* FireEvent of an event whose runtime type is another type B.
TypeIsolation ==
    \A f \in Passes : \A r \in Range(f.visited) : TypeOf(r) = f.e

\* C2 witness: a pass for one type invoked a handler while a registration
\* of the other type was registered.
TypeIsolationWitness ==
    /\ Returned
    /\ ret[1].visited # <<>>
    /\ \E r \in DOMAIN regs : regs[r].registered /\ TypeOf(r) # ret[1].e

\* The running handler has just revoked the registration through which the
\* innermost pass is invoking it.
SelfRevoked ==
    /\ stack # <<>>
    /\ Top.pc = "handler"
    /\ ret = <<[kind |-> "removeHandler", r |-> Top.it, was |-> TRUE]>>

\* C3: when a handler has revoked its own registration and returns, the
\* dispatch loop does not fail: the pass goes on with the registration that
\* followed the revoked one, or ends when there is none.
SelfRemovalDuringDispatch ==
    [][(SelfRevoked /\ Return) =>
          /\ ~crashed'
          /\ IF erased[Top.it] = End
             THEN stack' = SubSeq(stack, 1, Len(stack) - 1)
             ELSE stack'[Len(stack)].it = erased[Top.it]]_vars

RevokedNeverInvoked ==
    \A f \in Passes : ~f.dirty => \A r \in Range(f.visited) : regs[r].registered

SecondRevokeIsNoOp ==
    \A r \in DOMAIN regs :
        (~regs[r].registered /\ removeHandler(r)) =>
            UNCHANGED <<handlers, collections, regs, erased, stack, crashed>>

\* C4: revoking a registration that is already revoked changes nothing (the
\* registry, the calls in progress and the process are as before), and a
\* pass whose collection is not changed while it runs never invokes a
\* revoked registration.
IdempotentRevocation == []RevokedNeverInvoked /\ [][SecondRevokeIsNoOp]_vars

\* C4 witness: removeHandler has returned from a call on a registration
\* that was already revoked, and a handler of that type is still registered.
IdempotentRevocationWitness ==
    /\ ret # <<>>
    /\ ret[1].kind = "removeHandler"
    /\ ~ret[1].was
    /\ LiveOf(TypeOf(ret[1].r)) # <<>>

MemberIffRegistered ==
    \A r \in DOMAIN regs : \A c \in DOMAIN collections :
        (r \in Range(collections[c])) <=> (regs[r].registered /\ regs[r].registrations = c)

RevokedIsTerminal ==
    \A r \in DOMAIN regs : ~regs[r].registered => ~regs'[r].registered

\* C5: a registration is in its owning collection exactly when its
\* registered flag is set, it is in no other collection, and once revoked it
\* stays revoked.
RevokedStaysOut == []MemberIffRegistered /\ [][RevokedIsTerminal]_vars

\* C5 witness: a registration was revoked and a later one was added to the
\* same collection.
RevokedStaysOutWitness ==
    \E r, q \in DOMAIN regs :
        /\ r < q
        /\ ~regs[r].registered
        /\ regs[q].registered
        /\ regs[q].registrations = regs[r].registrations

\* The collection of type T exists and holds no registration: every
\* registration made for T has been revoked.
Emptied(T) ==
    /\ TypeId(T) \in DOMAIN handlers
    /\ handlers[TypeId(T)] # Null
    /\ collections[handlers[TypeId(T)]] = <<>>

\* A registration of type T was revoked.
SomeRevoked(T) == \E r \in DOMAIN regs : TypeOf(r) = T /\ ~regs[r].registered

FireOnEmptied ==
    \A T \in Types :
        (Emptied(T) /\ FireEvent(T)) =>
            /\ ret' = <<EmptyPass(T, handlers[TypeId(T)])>>
            /\ UNCHANGED <<handlers, collections, regs, stack, crashed>>

AddToEmptied ==
    \A T \in Types :
        Emptied(T) =>
            /\ handlers'[TypeId(T)] = handlers[TypeId(T)]
            /\ (\E h \in HandlerNames, s \in SenderArgs : AddHandler(T, h, s)) =>
                   /\ ~crashed'
                   /\ Len(regs') = Len(regs) + 1
                   /\ regs'[Len(regs')].registrations = handlers[TypeId(T)]
                   /\ collections'[handlers[TypeId(T)]] = <<Len(regs')>>

FireAfterRevocations ==
    (ReturnedClean /\ SomeRevoked(ret[1].e)) =>
        /\ ret[1].registrations = handlers[TypeId(ret[1].e)]
        /\ ret[1].visited = collections[ret[1].registrations]

\* C6: after every registration of a type is revoked its collection stays in
\* the registry: FireEvent of that type returns at once having invoked
\* nothing, AddHandler for the type appends to that same collection, and a
\* FireEvent after it invokes what the collection then holds.
LazyPersistentCollections ==
    []FireAfterRevocations /\ [][FireOnEmptied /\ AddToEmptied]_vars

\* C6 witness: registration 1 was the only one of its type and was revoked,
\* registration 2 was then made for that type, and a pass invoked it.
LazyPersistentCollectionsWitness ==
    /\ ReturnedClean
    /\ Len(regs) = 2
    /\ TypeOf(1) = ret[1].e
    /\ ~regs[1].registered
    /\ ret[1].visited = <<2>>

\* No AddHandler was ever made for type T.
NeverRegistered(T) == \A r \in DOMAIN regs : TypeOf(r) # T

FireWithoutSubscribers ==
    \A T \in Types :
        (NeverRegistered(T) /\ FireEvent(T)) =>
            /\ ret' = <<EmptyPass(T, Null)>>
            /\ UNCHANGED <<collections, regs, stack, crashed>>

AddAfterFireWithoutSubscribers ==
    \A T \in Types :
        (/\ NeverRegistered(T)
         /\ TypeId(T) \in DOMAIN handlers
         /\ \E h \in HandlerNames, s \in SenderArgs : AddHandler(T, h, s)) =>
            /\ ~crashed'
            /\ Len(regs') = Len(regs) + 1
            /\ handlers'[TypeId(T)] # Null
            /\ collections'[handlers'[TypeId(T)]] = <<Len(regs')>>

FireFirstSubscriber ==
    (ReturnedClean /\ Len(LiveOf(ret[1].e)) = 1 /\ ~SomeRevoked(ret[1].e)) =>
        ret[1].visited = LiveOf(ret[1].e)

\* C7: FireEvent of a type for which no handler was ever registered invokes
\* nothing and returns normally; an AddHandler for the type made afterwards
\* registers the handler, and a FireEvent after that invokes it.
NoSubscriberNoOp ==
    []FireFirstSubscriber /\ [][FireWithoutSubscribers /\ AddAfterFireWithoutSubscribers]_vars

\* C7 witness: FireEvent of a never-registered type has returned, having
\* found a null entry, while the other type has a registration.
NoSubscriberNoOpWitness ==
    /\ Returned
    /\ ret[1].registrations = Null
    /\ NeverRegistered(ret[1].e)
    /\ regs # <<>>

\* The collection c before a step, a collection created by the step being
\* empty before it.
Before(c) == IF c \in DOMAIN collections THEN collections[c] ELSE <<>>

Count(q, r) == Cardinality({i \in DOMAIN q : q[i] = r})

OneRegistrationPerCall ==
    /\ Len(regs') \in {Len(regs), Len(regs) + 1}
    /\ DOMAIN collections \subseteq DOMAIN collections'
    /\ \A r \in DOMAIN regs :
          /\ regs'[r].handler = regs[r].handler
          /\ regs'[r].registrations = regs[r].registrations
          /\ regs'[r].sender = regs[r].sender
    /\ Len(regs') = Len(regs) + 1 =>
          /\ \A r \in DOMAIN regs : regs'[r] = regs[r]
          /\ \A c \in DOMAIN collections' :
                collections'[c] =
                    IF c = regs'[Len(regs')].registrations
                    THEN Append(Before(c), Len(regs'))
                    ELSE Before(c)

RevokeOnlyOwn ==
    \A r \in DOMAIN regs :
        (regs[r].registered /\ ~regs'[r].registered) =>
            /\ \A q \in DOMAIN regs \ {r} : regs'[q] = regs[q]
            /\ \A c \in DOMAIN collections :
                  collections'[c] = SelectSeq(collections[c], LAMBDA x : x # r)

OnlyAddAndRevokeChange ==
    (regs' = regs) => (collections' = collections)

EachInvokedOnce ==
    ReturnedClean =>
        \A r \in DOMAIN regs :
            Count(ret[1].visited, r) =
                IF regs[r].registered /\ TypeOf(r) = ret[1].e THEN 1 ELSE 0

\* C8: each AddHandler call makes one new registration, appended to the
\* collection of its type, and changes no other; a revocation removes that
\* one registration and leaves every other one, of every type, present and
\* in the same order; a handler registered twice has two registrations and
\* each is invoked once by a FireEvent.
HandleRevokesOwnRegistration ==
    /\ []EachInvokedOnce
    /\ [][OneRegistrationPerCall /\ RevokeOnlyOwn /\ OnlyAddAndRevokeChange]_vars

\* C8 witness: one handler object was registered three times, the second
\* registration was revoked, and a pass invoked the first and the third.
HandleRevokesOwnRegistrationWitness ==
    /\ ReturnedClean
    /\ ret[1].visited = <<1, 3>>
    /\ getHandler(1) = getHandler(3)
    /\ getHandler(2) = getHandler(1)
    /\ ~regs[2].registered

\* While a nested call runs, the outer calls wait in the handler that made
\* it.
OuterCallsWait ==
    \A i \in DOMAIN stack : i < Len(stack) => stack[i].pc = "handler"

\* Only the innermost call moves.
OnlyInnermostMoves ==
    \A i \in DOMAIN stack :
        (i < Len(stack) /\ i \in DOMAIN stack') =>
            /\ stack'[i].it = stack[i].it
            /\ stack'[i].pc = stack[i].pc
            /\ stack'[i].visited = stack[i].visited

\* A call returns in the step in which the handler it invoked last returns,
\* and it is the innermost call that returns.
ReturnsAfterHandlers ==
    (Len(stack') < Len(stack)) =>
        /\ Top.pc = "handler"
        /\ stack' = SubSeq(stack, 1, Len(stack) - 1)
        /\ ret' = <<Pass(Top)>>

\* Every call in progress returns (or the process dies): whenever a call is
\* in progress, later none is.
EveryCallReturns == []<>(stack = <<>> \/ crashed)

\* C9: FireEvent returns only after the handlers it invoked have returned; a
\* nested FireEvent runs to completion before the outer pass moves on; and
\* when every handler returns, every FireEvent call returns.
SynchronousDispatch ==
    /\ []OuterCallsWait
    /\ [][OnlyInnermostMoves /\ ReturnsAfterHandlers]_vars
    /\ EveryCallReturns

\* C9 witness: a nested FireEvent has just returned to the handler that
\* made it, having invoked a handler, and the outer pass is where it was.
SynchronousDispatchWitness ==
    /\ Returned
    /\ ret[1].visited # <<>>
    /\ stack # <<>>
    /\ Top.pc = "handler"
    /\ Len(Top.visited) = 1

\* The Publish that returned in the last step.
Published == pubRet # <<>>

\* How many times Publish invoked callback cb through subscription i.
Invocations(i, cb) ==
    Cardinality({j \in DOMAIN pubRet[1].invoked : pubRet[1].invoked[j] = <<i, cb>>})

\* C10: a subscription made with Subscribe<T>(callback, p) and not cancelled
\* has callback invoked once by a Publish of an event of type T when p(event)
\* is true, and not at all when it is false.
PredicateGating ==
    Published =>
        \A i \in DOMAIN asked :
            (~subs[i].cancelled /\ pubRet[1].event.type = asked[i].T) =>
                Invocations(i, asked[i].handler) =
                    IF EvalPred(asked[i].predicate, pubRet[1].event) THEN 1 ELSE 0

\* C10 witness: two subscriptions for the type of the published event, the
\* predicate of one true of the event and that of the other false, and the
\* callback of the first alone invoked.
PredicateGatingWitness ==
    /\ Published
    /\ Len(asked) = 2
    /\ ~subs[1].cancelled /\ ~subs[2].cancelled
    /\ asked[1].T = pubRet[1].event.type
    /\ asked[2].T = pubRet[1].event.type
    /\ asked[1].predicate = "even"
    /\ asked[2].predicate = "big"
    /\ pubRet[1].event.amount = 0
    /\ pubRet[1].invoked = <<<<1, asked[1].handler>>>>

\* C11: Publish of an event never invokes a callback through a subscription
\* made with Subscribe<T> for a type T other than the event's runtime type,
\* also when one of the two types is derived from the other.
UnrelatedTypeNonInterference ==
    Published =>
        \A j \in DOMAIN pubRet[1].invoked :
            asked[pubRet[1].invoked[j][1]].T = pubRet[1].event.type

\* C11 witness: subscriptions for A and for B (derived from A), both with
\* predicates that are true of the event; an event of type B invoked the
\* callback of the second alone.
UnrelatedTypeNonInterferenceWitness ==
    /\ Published
    /\ Len(asked) = 2
    /\ ~subs[1].cancelled /\ ~subs[2].cancelled
    /\ asked[1].T = "A" /\ asked[1].predicate = "always"
    /\ asked[2].T = "B" /\ asked[2].predicate = "always"
    /\ pubRet[1].event.type = "B"
    /\ IsA(pubRet[1].event.type, asked[1].T)
    /\ pubRet[1].invoked = <<<<2, asked[2].handler>>>>


\* The iterator of pass f is at a node that is still linked in its list.
Linked(f) == f.it \notin DOMAIN erased

\* The registrations pass f has still to invoke as its list stands: from the
\* node of its iterator on when the loop body is about to run, after it when
\* the handler of that node is running.
Pending(f) ==
    LET l == collections[f.registrations]
        i == IndexOf(l, f.it)
    IN  IF f.pc = "loop" THEN SubSeq(l, i, Len(l)) ELSE SubSeq(l, i + 1, Len(l))

\* A revocation of r leaves every pass that is at another registration where
\* it is, with a valid iterator, and takes r alone out of what the pass has
\* still to invoke.
RevokeOtherKeepsPass ==
    \A r \in DOMAIN regs :
        (regs[r].registered /\ ~regs'[r].registered) =>
            \A i \in DOMAIN stack :
                (Linked(stack[i]) /\ stack[i].it # r) =>
                    /\ stack'[i].it = stack[i].it
                    /\ stack'[i].pc = stack[i].pc
                    /\ stack'[i].visited = stack[i].visited
                    /\ stack'[i].it \notin DOMAIN erased'
                    /\ Pending(stack[i])' = SelectSeq(Pending(stack[i]), LAMBDA x : x # r)

\* A pass whose iterator is at a linked node goes on without failure: the
\* loop body invokes the registration at the iterator, and when the handler
\* returns the pass moves to the first registration it has still to invoke,
\* or returns when there is none.
LinkedPassGoesOn ==
    (stack # <<>> /\ Linked(Top)) =>
        /\ Invoke =>
               /\ ~crashed'
               /\ stack'[Len(stack)].visited = Append(Top.visited, Head(Pending(Top)))
        /\ Return =>
               /\ ~crashed'
               /\ IF Pending(Top) = <<>>
                  THEN stack' = SubSeq(stack, 1, Len(stack) - 1) /\ ret' = <<Pass(Top)>>
                  ELSE /\ stack'[Len(stack)].it = Head(Pending(Top))
                       /\ stack'[Len(stack)].pc = "loop"
                       /\ stack'[Len(stack)].visited = Top.visited

\* The process only fails in a pass whose iterator is at a node that was
\* unlinked under it.
FaultOnlyAtRevokedNode ==
    (crashed' /\ ~crashed) => (stack # <<>> /\ ~Linked(Top))

\* No pass has a revoked registration among those it has still to invoke.
RevokedNotPending ==
    \A i \in DOMAIN stack :
        Linked(stack[i]) => \A r \in Range(Pending(stack[i])) : regs[r].registered

\* C12: when a handler revokes a registration other than the one a pass is
\* at, that pass goes on without failure: the revoked registration, if it was
\* still to be invoked, is not invoked, and every other registration still to
\* be invoked is invoked, once each and in order.
RevokeOtherDuringDispatch ==
    /\ []RevokedNotPending
    /\ [][RevokeOtherKeepsPass /\ LinkedPassGoesOn /\ FaultOnlyAtRevokedNode]_vars

\* C12 witness: of registrations 1, 2, 3 of one type the handler of 1, while
\* a pass invokes it, has just revoked 2, and the pass has 3 still to invoke.
RevokeOtherDuringDispatchWitness ==
    /\ stack # <<>>
    /\ Top.pc = "handler"
    /\ Top.it = 1
    /\ Top.visited = <<1>>
    /\ ret = <<[kind |-> "removeHandler", r |-> 2, was |-> TRUE]>>
    /\ TypeOf(2) = Top.e
    /\ Linked(Top)
    /\ Pending(Top) = <<3>>


\* A step of a FireEvent call: the lookup, the loop body, the return of a
\* handler.
FireEventStep == (\E T \in Types : FireEvent(T)) \/ Invoke \/ Return

\* C13: FireEvent by itself does not change the registry: the event types
\* that have an entry, the collection of each and the contents and order of
\* every collection are after each of its steps what they were before, also
\* when the event's type was never registered.
FireEventLeavesRegistry ==
    [][FireEventStep =>
          /\ DOMAIN handlers' = DOMAIN handlers
          /\ handlers' = handlers
          /\ collections' = collections]_vars


\* The registration was made with the AddHandler overload that takes a
\* sender.
HasSender(r) == getSender(r) # "nullptr"

Holders(r) == {c \in DOMAIN collections : r \in Range(collections[c])}

\* C15: in every state a registration is in at most one collection, which is
\* the one the registry maps its event type to, and at most once in it.
OneCollectionOnce ==
    \A r \in DOMAIN regs :
        /\ Cardinality(Holders(r)) <= 1
        /\ \A c \in Holders(r) :
              /\ Count(collections[c], r) = 1
              /\ TypeId(TypeOf(r)) \in DOMAIN handlers
              /\ handlers[TypeId(TypeOf(r))] = c

\* C15 witness: two collections, the first holding registrations 1 and 3 and
\* the second registration 2.
OneCollectionOnceWitness ==
    /\ Len(collections) = 2
    /\ collections[1] = <<1, 3>>
    /\ collections[2] = <<2>>
    /\ TypeOf(1) # TypeOf(2)


\* Once the registry maps a type to a collection, it maps the type to that
\* collection after every step, and the collection is still there.
CollectionStays ==
    \A k \in DOMAIN handlers :
        handlers[k] # Null =>
            /\ k \in DOMAIN handlers'
            /\ handlers'[k] = handlers[k]
            /\ handlers[k] \in DOMAIN collections'

\* The owning collection that a handle refers to exists and is the one the
\* registry maps the handle's event type to.
HandleRefersToCollection ==
    \A r \in DOMAIN regs :
        /\ regs[r].registrations \in DOMAIN collections
        /\ TypeId(TypeOf(r)) \in DOMAIN handlers
        /\ handlers[TypeId(TypeOf(r))] = regs[r].registrations

\* C16: a collection, once created for an event type, is what the registry
\* maps that type to in every later state (it is not removed or replaced when
\* it becomes empty or when other types are registered or fired), so the
\* owning collection of every handle exists whenever the handle is revoked.
PersistentCollections ==
    []HandleRefersToCollection /\ [][CollectionStays]_vars

\* C16 witness: the only registration of one type was revoked, which left
\* its collection empty, a FireEvent of the other type then invoked a
\* handler, and the first type is still mapped to its empty collection.
PersistentCollectionsWitness ==
    /\ Returned
    /\ ret[1].visited # <<>>
    /\ \E r \in DOMAIN regs :
          /\ ~regs[r].registered
          /\ TypeOf(r) # ret[1].e
          /\ Emptied(TypeOf(r))
          /\ handlers[TypeId(TypeOf(r))] = regs[r].registrations


\* An AddHandler made while passes are in progress appends the new
\* registration to what every pass over its collection has still to invoke,
\* and leaves the other passes as they are.
AddDuringPassAppends ==
    (Len(regs') = Len(regs) + 1) =>
        \A i \in DOMAIN stack :
            Linked(stack[i]) =>
                /\ stack'[i].it = stack[i].it
                /\ stack'[i].visited = stack[i].visited
                /\ Pending(stack[i])' =
                       IF stack[i].registrations = regs'[Len(regs')].registrations
                       THEN Append(Pending(stack[i]), Len(regs'))
                       ELSE Pending(stack[i])

\* A pass during which registrations of its type were added and none of its
\* type was ever revoked has invoked every registration of the type, those
\* added during the pass too, in registration order.
AddedDuringPassInvoked ==
    (Returned /\ ret[1].dirty /\ ~SomeRevoked(ret[1].e)) =>
        ret[1].visited = LiveOf(ret[1].e)

\* C17: a pass iterates the live collection: a registration that a handler
\* adds for the same event type while the pass runs is appended to the end of
\* the collection and is invoked in that pass, after every registration that
\* was there before it.
LiveIteration ==
    []AddedDuringPassInvoked /\ [][AddDuringPassAppends]_vars

\* C17 witness: a pass over a collection that held registration 1 when it
\* began has returned having invoked 1 and then 2, which the handler of 1
\* added while the pass ran.
LiveIterationWitness ==
    /\ Returned
    /\ ret[1].dirty
    /\ stack = <<>>
    /\ Len(regs) = 2
    /\ ~SomeRevoked(ret[1].e)
    /\ TypeOf(1) = ret[1].e
    /\ TypeOf(2) = ret[1].e
    /\ ret[1].visited = <<1, 2>>

====
